---- MODULE Spec2Model ----
(***************************************************************************)
(* Model of pkg/tsdb/grafana-pyroscope-datasource/pyroscopeClient.go:      *)
(* PyroscopeClient, a client that wraps one connect-go QuerierService      *)
(* client and exposes five operations (ProfileTypes, GetSeries,            *)
(* GetProfile, LabelNames, LabelValues).  Each operation issues one        *)
(* blocking remote call and maps the reply.                                *)
(*                                                                         *)
(* Go strings are sequences of one-character strings, so that              *)
(* strings.Split, strings.HasPrefix and + are computed, not assumed.       *)
(* A Go slice or pointer that may be nil is a record with an isNil field.  *)
(* A call ends either by returning (val, err) or by a runtime panic.       *)
(*                                                                         *)
(* Arguments the client only forwards to the remote service                *)
(* (labelSelector, start, end, groupBy, step, maxNodes) take no part in    *)
(* the mapping of a reply and are left out of the request.                 *)
(***************************************************************************)
EXTENDS Bags, FiniteSets, Integers, Sequences, TLC

VARIABLES
    connectClient,  \* PyroscopeClient.connectClient, the only field of the client
    pc,             \* pc[p]: where caller p is: "idle", "waiting" (blocked in the remote call), "done"
    call,           \* call[p]: the method caller p invoked and its profileTypeID / label argument
    ctx,            \* ctx[p]: the context caller p passed: "live" or "cancelled"
    sent,           \* sent[p]: remote calls issued by caller p's current invocation
    inflight,       \* bag of the requests the transport has received and not yet answered
    reply,          \* reply[p]: what the remote call of caller p returned (res, err)
    result,         \* result[p]: what the method returned to caller p, or its panic
    cancelSeen      \* TRUE once the context of some call on this client was cancelled

vars == <<connectClient, pc, call, ctx, sent, inflight, reply, result, cancelSeen>>

----------------------------------------------------------------------------
(* Bounds of the model. *)

NumCallers == 2     \* concurrent callers sharing the client (specification Spec)
MaxLen == 2         \* longest enumerated upstream list (specification SpecFn)
MaxIdLen == 3       \* longest enumerated profileTypeID over IdAlphabet (specification SpecFn)

----------------------------------------------------------------------------
(* Go values. *)

NilSlice == [isNil |-> TRUE, elems |-> <<>>]
Slice(s) == [isNil |-> FALSE, elems |-> s]
NilPtr == [isNil |-> TRUE]
Ptr(x) == [isNil |-> FALSE, v |-> x]
NoErr == [isNil |-> TRUE, msg |-> ""]
Err(m) == [isNil |-> FALSE, msg |-> m]

Returned(val, err) == [kind |-> "return", val |-> val, err |-> err]
Panicked == [kind |-> "panic", msg |-> "runtime error: index out of range"]
Value(x) == [kind |-> "value", v |-> x]
None == [kind |-> "none"]

RECURSIVE SeqsOfLen(_, _)
SeqsOfLen(S, n) ==
    IF n = 0 THEN {<<>>}
    ELSE {<<x>> \o s : x \in S, s \in SeqsOfLen(S, n - 1)}

SeqsUpTo(S, n) == UNION {SeqsOfLen(S, k) : k \in 0..n}

----------------------------------------------------------------------------
(* String literals of the source and of the inputs. *)

NANOSECONDS == <<"n", "a", "n", "o", "s", "e", "c", "o", "n", "d", "s">>
COUNT == <<"c", "o", "u", "n", "t">>
NS == <<"n", "s">>
SHORT == <<"s", "h", "o", "r", "t">>
PRIVATE_PREFIX == <<"_", "_">>
LABEL_SEP == <<" ", "-", " ">>

ID_CPU == <<"p", "r", "o", "c", "e", "s", "s", "_", "c", "p", "u", ":", "c", "p", "u", ":", "n", "a", "n", "o", "s", "e", "c", "o", "n", "d", "s">>
ID_MEM == <<"m", "e", "m", "o", "r", "y", ":", "i", "n", "u", "s", "e", "_", "s", "p", "a", "c", "e", ":", "b", "y", "t", "e", "s">>
ID_OBJ == <<"m", "e", "m", "o", "r", "y", ":", "a", "l", "l", "o", "c", "_", "o", "b", "j", "e", "c", "t", "s", ":", "c", "o", "u", "n", "t">>
ID_ONE == <<"o", "n", "l", "y", "o", "n", "e", "p", "a", "r", "t">>
ID_TWO == <<"a", ":", "b">>
ID_FOUR == <<"a", ":", "b", ":", "c", "o", "u", "n", "t", ":", "x">>

L_NAME == <<"_", "_", "n", "a", "m", "e", "_", "_">>
L_JOB == <<"j", "o", "b">>
L_INSTANCE == <<"i", "n", "s", "t", "a", "n", "c", "e">>
L_META == <<"_", "_", "m", "e", "t", "a", "_", "x">>
L_UNDER == <<"_", "x">>

----------------------------------------------------------------------------
(* strings.Split with a one-character separator: one more component than   *)
(* there are separators, empty components kept.                            *)

RECURSIVE Split(_, _)
Split(s, sep) ==
    IF \A i \in 1..Len(s) : s[i] # sep
    THEN <<s>>
    ELSE LET i == CHOOSE k \in 1..Len(s) :
                      s[k] = sep /\ \A j \in 1..(k - 1) : s[j] # sep
         IN  <<SubSeq(s, 1, i - 1)>> \o Split(SubSeq(s, i + 1, Len(s)), sep)

(* strings.HasPrefix *)
HasPrefix(s, prefix) ==
    Len(s) >= Len(prefix) /\ SubSeq(s, 1, Len(prefix)) = prefix

----------------------------------------------------------------------------
(* Replies of the remote service: (res, err) of a connectClient call.      *)

ErrUnavailable == Err("unavailable: connection refused")
ErrCanceled == Err("canceled: context canceled")

OkReply(m) == [err |-> NoErr, msg |-> m]
ErrReply(e) == [err |-> e, msg |-> NilPtr]

Replies(payloads) ==
    {ErrReply(e) : e \in {ErrUnavailable, ErrCanceled}} \cup {OkReply(m) : m \in payloads}

----------------------------------------------------------------------------
(* The mapping of each reply, as the method computes it after the remote   *)
(* call has returned.                                                      *)

isPrivateLabelSingleUnderscore(label) == HasPrefix(label, <<"_">>)

isPrivateLabel(label) == HasPrefix(label, PRIVATE_PREFIX)

getUnitsNoCount(profileTypeID) ==
    LET parts == Split(profileTypeID, ":")
    IN  IF Len(parts) < 3 THEN Panicked
        ELSE IF parts[3] = NANOSECONDS THEN Value(NS) ELSE Value(parts[3])

(* parts[2] of the source is the third component: an index fault when     *)
(* the identifier has fewer than three.                                    *)
getUnits(profileTypeID) ==
    LET parts == Split(profileTypeID, ":")
    IN  IF Len(parts) < 3 THEN Panicked
        ELSE LET unit == parts[3]
             IN  IF unit = NANOSECONDS THEN Value(NS)
                 ELSE IF unit = COUNT THEN Value(SHORT)
                 ELSE Value(unit)

ProfileTypesResultNil(res) ==
    IF ~res.err.isNil THEN Returned(NilSlice, res.err)
    ELSE IF res.msg.ProfileTypes.elems = <<>> THEN Returned(NilSlice, NoErr)
    ELSE LET in == res.msg.ProfileTypes.elems
         IN  Returned(Slice([i \in 1..Len(in) |->
                        [ID |-> in[i].ID,
                         Label |-> in[i].Name \o LABEL_SEP \o in[i].SampleType]]),
                      NoErr)

ProfileTypesResult(res) ==
    IF ~res.err.isNil THEN Returned(NilSlice, res.err)
    ELSE IF res.msg.ProfileTypes.isNil THEN Returned(Slice(<<>>), NoErr)
    ELSE LET in == res.msg.ProfileTypes.elems
         IN  Returned(Slice([i \in 1..Len(in) |->
                        [ID |-> in[i].ID,
                         Label |-> in[i].Name \o LABEL_SEP \o in[i].SampleType]]),
                      NoErr)

(* The series are copied label by label and point by point.  The struct    *)
(* literal then evaluates getUnits(profileTypeID) and parts[1]; Go leaves  *)
(* the order of the two open, and either one faults on an identifier of    *)
(* one component, so the panic records the fault and not the index.        *)
GetSeriesResult(profileTypeID, resp) ==
    IF ~resp.err.isNil THEN Returned(NilPtr, resp.err)
    ELSE LET in == resp.msg.Series
             series == [i \in 1..Len(in) |->
                          [Labels |-> [j \in 1..Len(in[i].Labels) |->
                                         [Name |-> in[i].Labels[j].Name,
                                          Value |-> in[i].Labels[j].Value]],
                           Points |-> [j \in 1..Len(in[i].Points) |->
                                         [Value |-> in[i].Points[j].Value,
                                          Timestamp |-> in[i].Points[j].Timestamp]]]]
             parts == Split(profileTypeID, ":")
             units == getUnits(profileTypeID)
         IN  IF units.kind = "panic" \/ Len(parts) < 2 THEN Panicked
             ELSE Returned(Ptr([Series |-> series, Units |-> units.v, Label |-> parts[2]]),
                           NoErr)

GetProfileResultErrAsNoData(profileTypeID, resp) ==
    IF ~resp.err.isNil \/ resp.msg.Flamegraph.isNil THEN Returned(NilPtr, NoErr)
    ELSE LET fg == resp.msg.Flamegraph.v
             units == getUnits(profileTypeID)
         IN  IF units.kind = "panic" THEN Panicked
             ELSE Returned(Ptr([Flamebearer |-> Ptr(fg), Units |-> units.v]), NoErr)

GetProfileResult(profileTypeID, resp) ==
    IF ~resp.err.isNil THEN Returned(NilPtr, resp.err)
    ELSE IF resp.msg.Flamegraph.isNil THEN Returned(NilPtr, NoErr)
    ELSE LET fg == resp.msg.Flamegraph.v
             levels == [i \in 1..Len(fg.Levels) |-> [Values |-> fg.Levels[i].Values]]
             units == getUnits(profileTypeID)
         IN  IF units.kind = "panic" THEN Panicked
             ELSE Returned(Ptr([Flamebearer |-> Ptr([Names |-> fg.Names,
                                                     Levels |-> levels,
                                                     Total |-> fg.Total,
                                                     MaxSelf |-> fg.MaxSelf]),
                                Units |-> units.v]),
                           NoErr)

(* append on a nil slice allocates: filtered stays nil only when nothing   *)
(* is appended.                                                            *)
append(slice, x) == Slice(slice.elems \o <<x>>)

RECURSIVE FilterLabels(_, _)
FilterLabels(names, filtered) ==
    IF names = <<>> THEN filtered
    ELSE FilterLabels(Tail(names),
                      IF ~isPrivateLabel(Head(names))
                      THEN append(filtered, Head(names))
                      ELSE filtered)

LabelNamesResult(resp) ==
    IF ~resp.err.isNil
    THEN Returned(NilSlice, Err("error seding LabelNames request " \o resp.err.msg))
    ELSE Returned(FilterLabels(resp.msg.Names.elems, NilSlice), NoErr)

LabelValuesResultFiltered(resp) ==
    IF ~resp.err.isNil THEN Returned(NilSlice, resp.err)
    ELSE Returned(FilterLabels(resp.msg.Names.elems, NilSlice), NoErr)

LabelValuesResult(resp) ==
    IF ~resp.err.isNil THEN Returned(NilSlice, resp.err)
    ELSE Returned(resp.msg.Names, NoErr)

----------------------------------------------------------------------------
(* Inputs.  Specification Spec shares one client among NumCallers callers  *)
(* and draws from the Shared sets; specification SpecFn has one caller and *)
(* draws identifiers and upstream lists from the enumerated sets.          *)

IdAlphabet == {":", "a"}
ProfileTypeIDs ==
    {ID_CPU, ID_MEM, ID_OBJ, ID_ONE, ID_TWO, ID_FOUR} \cup SeqsUpTo(IdAlphabet, MaxIdLen)
SharedProfileTypeIDs == {ID_CPU, ID_TWO}

LabelStrings == {<<>>, <<"_">>, PRIVATE_PREFIX, L_NAME, L_JOB, L_UNDER}
Labels == {L_NAME, L_JOB, <<>>}
SharedLabels == {L_NAME, L_JOB}

NameLists ==
    {NilSlice, Slice(<<L_NAME, L_JOB, L_INSTANCE, L_META>>)}
        \cup {Slice(s) : s \in SeqsUpTo(LabelStrings, MaxLen)}
SharedNameLists == {Slice(<<L_NAME, L_JOB>>)}

TypeRecords ==
    [ID : {ID_CPU, ID_MEM}, Name : {<<>>, <<"m", "e", "m">>}, SampleType : {<<"a">>}]
TypeLists == {NilSlice} \cup {Slice(s) : s \in SeqsUpTo(TypeRecords, MaxLen)}
SharedTypeLists ==
    {NilSlice, Slice(<<[ID |-> ID_CPU, Name |-> <<"c", "p", "u">>, SampleType |-> <<"a">>]>>)}

UpstreamSeries ==
    {[Labels |-> <<>>, Points |-> <<>>],
     [Labels |-> <<[Name |-> L_JOB, Value |-> <<"a">>]>>,
      Points |-> <<[Value |-> 1, Timestamp |-> 1000], [Value |-> 2, Timestamp |-> 2000]>>]}
SeriesLists == SeqsUpTo(UpstreamSeries, MaxLen)
SharedSeriesLists == SeqsOfLen(UpstreamSeries, 1)

UpstreamLevels == {[Values |-> <<>>], [Values |-> <<0, 2, 0, 1>>]}
Flamegraphs ==
    {NilPtr} \cup {Ptr([Names |-> <<"total", "main">>, Levels |-> l, Total |-> 2, MaxSelf |-> 2]) :
                     l \in SeqsUpTo(UpstreamLevels, MaxLen)}
SharedFlamegraphs ==
    {NilPtr, Ptr([Names |-> <<"total">>, Levels |-> <<[Values |-> <<0, 2, 0, 0>>]>>,
                  Total |-> 2, MaxSelf |-> 2])}

----------------------------------------------------------------------------
(* The state machine.                                                      *)

Callers == DOMAIN pc

Procedure(op) ==
    CASE op = "ProfileTypes" -> "ProfileTypes"
      [] op = "GetSeries" -> "SelectSeries"
      [] op = "GetProfile" -> "SelectMergeStacktraces"
      [] op = "LabelNames" -> "LabelNames"
      [] op = "LabelValues" -> "LabelValues"

Request(c) == [procedure |-> Procedure(c.op), arg |-> c.arg]

ArgOfFirstCaller(p) == call[CHOOSE q \in Callers : \A r \in Callers : q <= r].arg

(* The profileTypeID or label parameter of caller p's own invocation. *)
Arg(p) == call[p].arg

(* The remote call returns the cancellation error exactly when the context *)
(* it was given has been cancelled while it was in flight.                 *)
TransportDelivers(p, resp) == (ctx[p] = "cancelled") <=> (resp.err = ErrCanceled)

(* A method is entered: it builds its request and blocks in the one remote *)
(* call it makes.                                                          *)
Invoke(p, op, arg) ==
    /\ pc[p] # "waiting"
    /\ pc' = [pc EXCEPT ![p] = "waiting"]
    /\ call' = [call EXCEPT ![p] = [op |-> op, arg |-> arg]]
    /\ ctx' = [ctx EXCEPT ![p] = "live"]
    /\ sent' = [sent EXCEPT ![p] = 1]
    /\ inflight' = inflight (+) SetToBag({Request([op |-> op, arg |-> arg])})
    /\ reply' = [reply EXCEPT ![p] = None]
    /\ result' = [result EXCEPT ![p] = None]
    /\ UNCHANGED <<connectClient, cancelSeen>>

(* The remote call returns resp and the rest of the method runs: it maps   *)
(* resp and returns outcome to the caller.                                 *)
Return(p, op, resp, outcome) ==
    /\ pc[p] = "waiting"
    /\ call[p].op = op
    /\ TransportDelivers(p, resp)
    /\ pc' = [pc EXCEPT ![p] = "done"]
    /\ inflight' = inflight (-) SetToBag({Request(call[p])})
    /\ reply' = [reply EXCEPT ![p] = resp]
    /\ result' = [result EXCEPT ![p] = outcome]
    /\ UNCHANGED <<connectClient, call, ctx, sent, cancelSeen>>

ProfileTypes(p) == Invoke(p, "ProfileTypes", <<>>)

ProfileTypesReturn(p, res) == Return(p, "ProfileTypes", res, ProfileTypesResult(res))

GetSeries(p, profileTypeID) == Invoke(p, "GetSeries", profileTypeID)

GetSeriesReturn(p, resp) == Return(p, "GetSeries", resp, GetSeriesResult(Arg(p), resp))

GetProfile(p, profileTypeID) == Invoke(p, "GetProfile", profileTypeID)

GetProfileReturn(p, resp) == Return(p, "GetProfile", resp, GetProfileResult(Arg(p), resp))

LabelNames(p) == Invoke(p, "LabelNames", <<>>)

(* A failed remote call issued once more instead of being reported. *)
LabelNamesReturnRetry(p, resp) ==
    IF ~resp.err.isNil /\ sent[p] < 2
    THEN /\ pc[p] = "waiting"
         /\ call[p].op = "LabelNames"
         /\ TransportDelivers(p, resp)
         /\ sent' = [sent EXCEPT ![p] = sent[p] + 1]
         /\ reply' = [reply EXCEPT ![p] = resp]
         /\ UNCHANGED <<connectClient, pc, call, ctx, inflight, result, cancelSeen>>
    ELSE Return(p, "LabelNames", resp, LabelNamesResult(resp))

LabelNamesReturn(p, resp) == Return(p, "LabelNames", resp, LabelNamesResult(resp))

LabelValues(p, label) == Invoke(p, "LabelValues", label)

LabelValuesReturn(p, resp) == Return(p, "LabelValues", resp, LabelValuesResult(resp))

(* The caller cancels the context of its call while the remote call is in  *)
(* flight.                                                                 *)
Cancel(p) ==
    /\ pc[p] = "waiting"
    /\ ctx[p] = "live"
    /\ ctx' = [ctx EXCEPT ![p] = "cancelled"]
    /\ cancelSeen' = TRUE
    /\ UNCHANGED <<connectClient, pc, call, sent, inflight, reply, result>>

(* NewPyroscopeClient, and n callers that have not called yet. *)
NewPyroscopeClient(n) ==
    /\ connectClient = "QuerierServiceClient"
    /\ pc = [p \in 1..n |-> "idle"]
    /\ call = [p \in 1..n |-> [op |-> "none", arg |-> <<>>]]
    /\ ctx = [p \in 1..n |-> "live"]
    /\ sent = [p \in 1..n |-> 0]
    /\ inflight = EmptyBag
    /\ reply = [p \in 1..n |-> None]
    /\ result = [p \in 1..n |-> None]
    /\ cancelSeen = FALSE

Init == NewPyroscopeClient(NumCallers)

Next ==
    \/ \E p \in Callers : ProfileTypes(p)
    \/ \E p \in Callers, res \in Replies({[ProfileTypes |-> t] : t \in SharedTypeLists}) : ProfileTypesReturn(p, res)
    \/ \E p \in Callers, id \in SharedProfileTypeIDs : GetSeries(p, id)
    \/ \E p \in Callers, resp \in Replies({[Series |-> s] : s \in SharedSeriesLists}) : GetSeriesReturn(p, resp)
    \/ \E p \in Callers, id \in SharedProfileTypeIDs : GetProfile(p, id)
    \/ \E p \in Callers, resp \in Replies({[Flamegraph |-> f] : f \in SharedFlamegraphs}) : GetProfileReturn(p, resp)
    \/ \E p \in Callers : LabelNames(p)
    \/ \E p \in Callers, resp \in Replies({[Names |-> n] : n \in SharedNameLists}) : LabelNamesReturn(p, resp)
    \/ \E p \in Callers, label \in SharedLabels : LabelValues(p, label)
    \/ \E p \in Callers, resp \in Replies({[Names |-> n] : n \in SharedNameLists}) : LabelValuesReturn(p, resp)
    \/ \E p \in Callers : Cancel(p)

Spec == Init /\ [][Next]_vars

InitFn == NewPyroscopeClient(1)

NextFn ==
    \/ \E p \in Callers : ProfileTypes(p)
    \/ \E p \in Callers, res \in Replies({[ProfileTypes |-> t] : t \in TypeLists}) : ProfileTypesReturn(p, res)
    \/ \E p \in Callers, id \in ProfileTypeIDs : GetSeries(p, id)
    \/ \E p \in Callers, resp \in Replies({[Series |-> s] : s \in SeriesLists}) : GetSeriesReturn(p, resp)
    \/ \E p \in Callers, id \in ProfileTypeIDs : GetProfile(p, id)
    \/ \E p \in Callers, resp \in Replies({[Flamegraph |-> f] : f \in Flamegraphs}) : GetProfileReturn(p, resp)
    \/ \E p \in Callers : LabelNames(p)
    \/ \E p \in Callers, resp \in Replies({[Names |-> n] : n \in NameLists}) : LabelNamesReturn(p, resp)
    \/ \E p \in Callers, label \in Labels : LabelValues(p, label)
    \/ \E p \in Callers, resp \in Replies({[Names |-> n] : n \in NameLists}) : LabelValuesReturn(p, resp)
    \/ \E p \in Callers : Cancel(p)

SpecFn == InitFn /\ [][NextFn]_vars

----------------------------------------------------------------------------
(* Properties.                                                             *)

Done(p) == pc[p] = "done"
Malformed(profileTypeID) == Len(Split(profileTypeID, ":")) < 3
ErrInvalidIdentifier == Err("invalid identifier")
NoData(r) == r.kind = "return" /\ r.val.isNil /\ r.err.isNil
FailsWith(r, e) == r.kind = "return" /\ r.val.isNil /\ r.err = e
NormalizeUnit(token) ==
    CASE token = NANOSECONDS -> NS
      [] token = COUNT -> SHORT
      [] OTHER -> token

(* What a call returns when it runs alone against the reply r. *)
Alone(c, r) ==
    CASE c.op = "ProfileTypes" -> ProfileTypesResult(r)
      [] c.op = "GetSeries" -> GetSeriesResult(c.arg, r)
      [] c.op = "GetProfile" -> GetProfileResult(c.arg, r)
      [] c.op = "LabelNames" -> LabelNamesResult(r)
      [] c.op = "LabelValues" -> LabelValuesResult(r)

(* C1: a GetSeries call with a profileTypeID of fewer than three           *)
(* components, whose remote call returned a response, fails with           *)
(* InvalidIdentifier: it returns no SeriesResponse and does not panic.     *)
C1_MalformedSeriesFailsInvalidIdentifier ==
    \A p \in Callers :
        (Done(p) /\ call[p].op = "GetSeries" /\ Malformed(call[p].arg) /\ reply[p].err.isNil)
            => FailsWith(result[p], ErrInvalidIdentifier)

(* C2: GetProfile has three outcomes: NoData without an error when the     *)
(* reply carries no flamegraph, an error and never NoData when the remote  *)
(* call fails, a ProfileResponse with a populated Flamebearer when a       *)
(* flamegraph is present.                                                  *)
C2_ProfileThreeOutcomes ==
    \A p \in Callers :
        (Done(p) /\ call[p].op = "GetProfile") =>
            /\ ~reply[p].err.isNil =>
                   /\ result[p].kind = "return"
                   /\ ~result[p].err.isNil
                   /\ ~NoData(result[p])
            /\ (reply[p].err.isNil /\ reply[p].msg.Flamegraph.isNil) => NoData(result[p])
            /\ (reply[p].err.isNil /\ ~reply[p].msg.Flamegraph.isNil) =>
                   /\ result[p].kind = "return"
                   /\ result[p].err.isNil
                   /\ ~result[p].val.isNil
                   /\ ~result[p].val.v.Flamebearer.isNil

(* C3: a GetProfile call with a profileTypeID of fewer than three          *)
(* components fails with InvalidIdentifier for every reply of a successful *)
(* remote call, with or without a flamegraph: no panic, no NoData, no      *)
(* ProfileResponse.                                                        *)
C3_MalformedProfileFailsInvalidIdentifier ==
    \A p \in Callers :
        (Done(p) /\ call[p].op = "GetProfile" /\ Malformed(call[p].arg) /\ reply[p].err.isNil)
            => FailsWith(result[p], ErrInvalidIdentifier)

(* C4: under every interleaving of the callers, the result of each         *)
(* finished call is the result of the same call run alone on its own       *)
(* arguments and its own reply, the client still holds the transport       *)
(* reference it was constructed with, and a step of one caller leaves the  *)
(* call, reply and result of every other caller as they were.              *)
C4_ResultsAsWhenRunAlone ==
    /\ [](/\ connectClient = "QuerierServiceClient"
          /\ \A p \in Callers : Done(p) => result[p] = Alone(call[p], reply[p]))
    /\ [][\A p \in Callers :
              (pc'[p] = pc[p] /\ ctx'[p] = ctx[p]) =>
                  /\ call'[p] = call[p]
                  /\ sent'[p] = sent[p]
                  /\ reply'[p] = reply[p]
                  /\ result'[p] = result[p]]_vars

C4_Witness ==
    \E p, q \in Callers :
        /\ p # q
        /\ Done(p) /\ call[p].op = "GetSeries" /\ call[p].arg = ID_CPU
        /\ result[p].kind = "return" /\ ~result[p].val.isNil
        /\ result[p].val.v.Label = <<"c", "p", "u">>
        /\ pc[q] = "waiting" /\ call[q].op = "GetProfile" /\ call[q].arg = ID_TWO

(* C5: a call whose context was cancelled in flight returns an error and   *)
(* no result; every other call, in flight at the time or started later,    *)
(* returns what it returns alone on a client where nothing was cancelled,  *)
(* and the step that cancels one context changes no other call.            *)
C5_CancelAbortsOnlyThatCall ==
    /\ [](/\ connectClient = "QuerierServiceClient"
          /\ \A p \in Callers :
                 Done(p) =>
                     /\ ctx[p] = "cancelled" =>
                            /\ result[p].kind = "return"
                            /\ result[p].val.isNil
                            /\ ~result[p].err.isNil
                     /\ ctx[p] = "live" =>
                            /\ reply[p].err # ErrCanceled
                            /\ result[p] = Alone(call[p], reply[p]))
    /\ [][\A p \in Callers :
              (ctx[p] = "live" /\ ctx'[p] = "cancelled") =>
                  \A q \in Callers \ {p} :
                      /\ pc'[q] = pc[q]
                      /\ ctx'[q] = ctx[q]
                      /\ reply'[q] = reply[q]
                      /\ result'[q] = result[q]]_vars

C5_Witness ==
    \E p, q \in Callers :
        /\ p # q
        /\ cancelSeen
        /\ Done(p) /\ ctx[p] = "cancelled" /\ FailsWith(result[p], ErrCanceled)
        /\ Done(q) /\ ctx[q] = "live" /\ call[q] = call[p]
        /\ result[q].kind = "return" /\ ~result[q].val.isNil /\ result[q].err.isNil

(* C6: LabelNames returns exactly the upstream names that do not start     *)
(* with "__", each as often as upstream and in upstream order.             *)
C6_LabelNamesDropsPrivateKeepsOrder ==
    \A p \in Callers :
        (Done(p) /\ call[p].op = "LabelNames" /\ reply[p].err.isNil) =>
            /\ result[p].kind = "return"
            /\ result[p].err.isNil
            /\ result[p].val.elems =
                   SelectSeq(reply[p].msg.Names.elems,
                             LAMBDA n : ~(Len(n) >= 2 /\ n[1] = "_" /\ n[2] = "_"))

C6_Witness ==
    \E p \in Callers :
        /\ Done(p) /\ call[p].op = "LabelNames"
        /\ reply[p] = OkReply([Names |-> Slice(<<L_NAME, L_JOB, L_INSTANCE, L_META>>)])
        /\ result[p] = Returned(Slice(<<L_JOB, L_INSTANCE>>), NoErr)

(* C7: for a successful reply ProfileTypes returns a non-nil list with one *)
(* entry per upstream record in upstream order, entry i with record i's ID *)
(* and Label = Name + " - " + SampleType; an absent or empty upstream list *)
(* gives an empty list, not an absent one.                                 *)
C7_ProfileTypesPresentAndLabelled ==
    \A p \in Callers :
        (Done(p) /\ call[p].op = "ProfileTypes" /\ reply[p].err.isNil) =>
            LET in == reply[p].msg.ProfileTypes.elems
                out == result[p].val
            IN  /\ result[p].kind = "return"
                /\ result[p].err.isNil
                /\ ~out.isNil
                /\ Len(out.elems) = Len(in)
                /\ \A i \in 1..Len(in) :
                       /\ out.elems[i].ID = in[i].ID
                       /\ out.elems[i].Label = in[i].Name \o <<" ", "-", " ">> \o in[i].SampleType

C7_Witness ==
    \E p \in Callers :
        /\ Done(p) /\ call[p].op = "ProfileTypes"
        /\ reply[p] = OkReply([ProfileTypes |-> NilSlice])
        /\ result[p] = Returned(Slice(<<>>), NoErr)

(* C8: for a profileTypeID of at least three components and a successful   *)
(* reply, GetSeries returns Label = component 1 and Units =                *)
(* NormalizeUnit(component 2), and GetProfile with a flamegraph returns    *)
(* the same Units.                                                         *)
C8_LabelAndUnitsFromIdentifier ==
    \A p \in Callers :
        (Done(p) /\ reply[p].err.isNil /\ ~Malformed(call[p].arg)) =>
            LET parts == Split(call[p].arg, ":")
            IN  /\ call[p].op = "GetSeries" =>
                       /\ result[p].kind = "return"
                       /\ result[p].err.isNil
                       /\ ~result[p].val.isNil
                       /\ result[p].val.v.Label = parts[2]
                       /\ result[p].val.v.Units = NormalizeUnit(parts[3])
                /\ (call[p].op = "GetProfile" /\ ~reply[p].msg.Flamegraph.isNil) =>
                       /\ result[p].kind = "return"
                       /\ ~result[p].val.isNil
                       /\ result[p].val.v.Units = NormalizeUnit(parts[3])

C8_Witness ==
    \E p \in Callers :
        /\ Done(p) /\ call[p].op = "GetSeries" /\ call[p].arg = ID_OBJ
        /\ result[p].kind = "return" /\ ~result[p].val.isNil
        /\ result[p].val.v.Units = SHORT
        /\ result[p].val.v.Label = <<"a", "l", "l", "o", "c", "_", "o", "b", "j", "e", "c", "t", "s">>

(* C9: LabelValues returns the upstream value list as it is, whatever the  *)
(* label name and whatever the values start with.                          *)
C9_LabelValuesVerbatim ==
    \A p \in Callers :
        (Done(p) /\ call[p].op = "LabelValues" /\ reply[p].err.isNil) =>
            result[p] = Returned(reply[p].msg.Names, NoErr)

C9_Witness ==
    \E p \in Callers :
        /\ Done(p) /\ call[p].op = "LabelValues" /\ call[p].arg = L_NAME
        /\ reply[p] = OkReply([Names |-> Slice(<<L_NAME, L_JOB>>)])
        /\ result[p].val.elems = <<L_NAME, L_JOB>>

(* C10: an invocation issues exactly one remote call: one request is in    *)
(* flight for each caller that waits, also when several wait with the same *)
(* request, and a call that has returned has issued one.                   *)
C10_ExactlyOneRemoteCall ==
    /\ BagCardinality(inflight) = Cardinality({q \in Callers : pc[q] = "waiting"})
    /\ \A p \in Callers :
           /\ pc[p] = "waiting" =>
                  /\ sent[p] = 1
                  /\ CopiesIn(Request(call[p]), inflight) =
                         Cardinality({q \in Callers :
                                        pc[q] = "waiting" /\ Request(call[q]) = Request(call[p])})
           /\ Done(p) => sent[p] = 1

C10_Witness ==
    \E p, q \in Callers :
        /\ p # q
        /\ pc[p] = "waiting" /\ call[p].op = "LabelNames"
        /\ Done(q) /\ call[q].op = "LabelNames" /\ ~reply[q].err.isNil /\ sent[q] = 1
        /\ CopiesIn(Request(call[p]), inflight) = 1

====
